---------------------------- MODULE Spec2Model ----------------------------
(***************************************************************************)
(* Model of the two icon utilities of vettid-ios:                          *)
(*   Assets/create-icon.py     (the Cropper,   create_icon + main)         *)
(*   Assets/generate-icons.py  (the Generator, generate_icons + main)      *)
(* A behaviour is a session of one of the two scripts: the script is run,  *)
(* and may be run again with the same arguments on the file system the     *)
(* previous run left behind.                                               *)
(*                                                                         *)
(* The imaging library is outside the repository.  It is modelled by what  *)
(* it guarantees: convert/crop/resize return an image of the requested     *)
(* mode and size whose pixels are a deterministic function of the input    *)
(* (px records the derivation), and any library or file-system call may    *)
(* raise instead.                                                          *)
(***************************************************************************)
EXTENDS Integers, Sequences, FiniteSets

VARIABLES
    prog,       \* which script this session runs: "cropper" or "generator"
    argv,       \* sys.argv[1], or NoArg when the script is run without one
    fs,         \* the files on disk: path -> file content
    dirExists,  \* whether the Generator's output directory exists
    pc,         \* position of the running script
    source,     \* local `source` of main
    img,        \* local `img`
    box,        \* locals left, top, right, bottom of create_icon
    i,          \* 1-based position of the Generator's for loop in IOS_ICONS
    written,    \* table positions whose file this run has saved, in order
    status,     \* process exit status, meaningful once pc = "exit"
    err,        \* what ended the run: "" while running or on success
    run,        \* number of the current run of the session
    fs0,        \* the files on disk when the current run started
    dir0,       \* dirExists when the current run started
    prevSrc     \* content of the source file when the previous run started

vars == <<prog, argv, fs, dirExists, pc, source, img, box, i, written,
          status, err, run, fs0, dir0, prevSrc>>

---------------------------------------------------------------------------
(* Bounds *)

\* Source widths and heights 1..MaxDim are enumerated exhaustively.
MaxDim == 10

\* A session runs its script at most MaxRuns times.
MaxRuns == 2

\* Beside 1..MaxDim, the sizes the scripts are used and tested with.
TestedDims == {300, 800, 1000, 1024, 2000}

Dims == (1..MaxDim) \cup TestedDims

Modes == {"RGB", "RGBA"}

---------------------------------------------------------------------------
(* Paths and files *)

Join(dir, name) == <<dir, name>>

NoArg == <<"", "">>

\* A path given on the command line that is none of the scripts' own paths.
CustomArg == Join("Assets", "custom.png")

NoFile == [kind |-> "none"]

\* A file that exists but is unreadable or does not decode as an image.
Junk == [kind |-> "junk"]

Png(w, h, mode, px) == [kind |-> "png", w |-> w, h |-> h, mode |-> mode, px |-> px]

NoImg == [w |-> 0, h |-> 0, mode |-> "", px |-> <<>>]

NoBox == [left |-> 0, top |-> 0, right |-> 0, bottom |-> 0]

SrcPx == << <<"src", 0, 0, 0, 0>> >>

OldPx == << <<"old", 0, 0, 0, 0>> >>

\* The Cropper's source file: missing, undecodable, or an image of any size.
CropperSources ==
    {NoFile, Junk} \cup {Png(w, h, m, SrcPx) : w \in Dims, h \in Dims, m \in Modes}

\* The Generator resizes to the table's sizes whatever the source's size is:
\* a few source sizes, square and not, smaller and larger than the icons.
GeneratorDims == {<<1, 1>>, <<300, 300>>, <<1024, 1024>>, <<2000, 1000>>}

GeneratorSources ==
    {NoFile, Junk} \cup {Png(d[1], d[2], m, SrcPx) : d \in GeneratorDims, m \in Modes}

Max(a, b) == IF a >= b THEN a ELSE b

Min(a, b) == IF a <= b THEN a ELSE b

---------------------------------------------------------------------------
(* The imaging library, as the scripts use it *)

\* Image.open: the decoded image of a file.
Open(file) == [w |-> file.w, h |-> file.h, mode |-> file.mode, px |-> file.px]

\* img.convert('RGBA') when img.mode != 'RGBA'.
ConvertKeepsMode(im) == im

ToRGBA(im) ==
    IF im.mode # "RGBA"
    THEN [im EXCEPT !.mode = "RGBA", !.px = Append(@, <<"convert", 0, 0, 0, 0>>)]
    ELSE im

\* img.crop((left, top, right, bottom)); the full box is a plain copy.
Crop(im, b) ==
    IF b.left = 0 /\ b.top = 0 /\ b.right = im.w /\ b.bottom = im.h
    THEN im
    ELSE [im EXCEPT !.w = b.right - b.left, !.h = b.bottom - b.top,
                    !.px = Append(@, <<"crop", b.left, b.top, b.right, b.bottom>>)]

\* img.resize((w, h), Image.LANCZOS); resizing to the same size is a plain copy.
Resize(im, w, h) ==
    IF im.w = w /\ im.h = h
    THEN im
    ELSE [im EXCEPT !.w = w, !.h = h, !.px = Append(@, <<"resize", w, h, 0, 0>>)]

\* The file img.save(path, 'PNG', optimize=True) writes.
SavePngStamped(im) == Png(im.w, im.h, im.mode, Append(im.px, <<"time", run, 0, 0, 0>>))

SavePng(im) == Png(im.w, im.h, im.mode, im.px)

---------------------------------------------------------------------------
(* Cropper: the geometry of create_icon                                    *)
(* int(height * 0.17), int(height * 0.56) and int(tower_height * 1.1) are   *)
(* computed in double arithmetic and truncated.  The doubles nearest 0.17,  *)
(* 0.56 and 1.1 lie above them by less than 1e-16, so for image sizes the    *)
(* truncated product is the exact floor of h*17/100, h*56/100 and t*11/10.  *)

tower_top(height) == (height * 17) \div 100

tower_bottom(height) == (height * 56) \div 100

tower_height(height) == tower_bottom(height) - tower_top(height)

square_size(height) == (tower_height(height) * 11) \div 10

center_x(width) == width \div 2

center_y(height) == (tower_top(height) + tower_bottom(height)) \div 2

\* A square whose right edge is mirrored from the centre: one short for odd sizes.
SquareMirrored(width, height) ==
    LET s == square_size(height)
    IN  [left   |-> center_x(width) - s \div 2,
         top    |-> center_y(height) - s \div 2,
         right  |-> center_x(width) + s \div 2,
         bottom |-> center_y(height) - s \div 2 + s]

\* A square centred on the tower's top instead of its middle.
SquareOnTowerTop(width, height) ==
    LET s == square_size(height)
    IN  [left   |-> center_x(width) - s \div 2,
         top    |-> tower_top(height) - s \div 2,
         right  |-> center_x(width) - s \div 2 + s,
         bottom |-> tower_top(height) - s \div 2 + s]

\* left, top, right, bottom before "Ensure bounds".
Square(width, height) ==
    LET s == square_size(height)
        l == center_x(width) - s \div 2
        t == center_y(height) - s \div 2
    IN  [left |-> l, top |-> t, right |-> l + s, bottom |-> t + s]

\* Clamping that forgets the right and bottom edges.
EnsureLowerBounds(b, width, height) ==
    [left |-> Max(0, b.left), top |-> Max(0, b.top), right |-> b.right, bottom |-> b.bottom]

\* "Ensure bounds".
EnsureBounds(b, width, height) ==
    [left   |-> Max(0, b.left),
     top    |-> Max(0, b.top),
     right  |-> Min(width, b.right),
     bottom |-> Min(height, b.bottom)]


---------------------------------------------------------------------------
(* The paths of the two scripts *)

ScriptDirFile(name) == Join("Assets", name)

\* main of create-icon.py: the default `source`.
DefaultLogo == Join("Home", "logo.jpg")

\* An output path taken from the command line when there is one.
CropperOutputFromArg ==
    IF argv # NoArg THEN argv ELSE ScriptDirFile("vettid-icon-1024.png")

\* main of create-icon.py: `output`.
CropperOutput == ScriptDirFile("vettid-icon-1024.png")

\* main of generate-icons.py: the default `source`.
DefaultIcon == ScriptDirFile("vettid-icon-300.png")

\* main of generate-icons.py: `output_dir`.
output_dir == "AppIcon.appiconset"

\* The table with one filename pasted twice.
IOS_ICONS_Pasted ==
    << <<"icon-20@2x.png", 40>>,      <<"icon-20@3x.png", 60>>,
       <<"icon-29@2x.png", 58>>,      <<"icon-29@3x.png", 87>>,
       <<"icon-40@2x.png", 80>>,      <<"icon-40@3x.png", 120>>,
       <<"icon-60@2x.png", 120>>,     <<"icon-60@3x.png", 180>>,
       <<"icon-20.png", 20>>,         <<"icon-20@2x.png", 40>>,
       <<"icon-29.png", 29>>,         <<"icon-29@2x-ipad.png", 58>>,
       <<"icon-40.png", 40>>,         <<"icon-40@2x-ipad.png", 80>>,
       <<"icon-76.png", 76>>,         <<"icon-76@2x.png", 152>>,
       <<"icon-83.5@2x.png", 167>>,   <<"icon-1024.png", 1024>> >>

\* iOS icon specifications: (filename, size).
IOS_ICONS ==
    << <<"icon-20@2x.png", 40>>,      <<"icon-20@3x.png", 60>>,
       <<"icon-29@2x.png", 58>>,      <<"icon-29@3x.png", 87>>,
       <<"icon-40@2x.png", 80>>,      <<"icon-40@3x.png", 120>>,
       <<"icon-60@2x.png", 120>>,     <<"icon-60@3x.png", 180>>,
       <<"icon-20.png", 20>>,         <<"icon-20@2x-ipad.png", 40>>,
       <<"icon-29.png", 29>>,         <<"icon-29@2x-ipad.png", 58>>,
       <<"icon-40.png", 40>>,         <<"icon-40@2x-ipad.png", 80>>,
       <<"icon-76.png", 76>>,         <<"icon-76@2x.png", 152>>,
       <<"icon-83.5@2x.png", 167>>,   <<"icon-1024.png", 1024>> >>

filename(k) == IOS_ICONS[k][1]

size(k) == IOS_ICONS[k][2]

\* os.path.join(output_dir, filename) of the k-th table entry.
output_path(k) == Join(output_dir, filename(k))

TablePaths == {output_path(k) : k \in 1..Len(IOS_ICONS)}

\* A file of the asset catalog that is not an icon.
ContentsJson == Join(output_dir, "Contents.json")

DirPaths == TablePaths \cup {ContentsJson}

AllPaths ==
    {DefaultLogo, CustomArg, ScriptDirFile("vettid-icon-1024.png"), DefaultIcon}
        \cup DirPaths

\* What a path holds before the session when it holds something else than
\* the source: an older icon, or the catalog's JSON.
OldFile(p) == IF p = ContentsJson THEN Junk ELSE Png(512, 512, "RGB", OldPx)

---------------------------------------------------------------------------
(* Initial states: the script, its argument and the files on disk *)

Args(pr) ==
    IF pr = "cropper"
    THEN {NoArg, CustomArg, ScriptDirFile("vettid-icon-1024.png")}
    ELSE {NoArg, CustomArg, Join(output_dir, "icon-1024.png")}

SourceFiles(pr) == IF pr = "cropper" THEN CropperSources ELSE GeneratorSources

DefaultSource(pr) == IF pr = "cropper" THEN DefaultLogo ELSE DefaultIcon

\* The paths that may hold an older file before the session.
PreExisting(pr) ==
    IF pr = "cropper"
    THEN SUBSET {ScriptDirFile("vettid-icon-1024.png"), CustomArg}
    ELSE SUBSET {Join(output_dir, "icon-20@2x.png"), Join(output_dir, "icon-1024.png"),
                 ContentsJson, ScriptDirFile("vettid-icon-1024.png")}

InitFs(sp, sf, pre) ==
    [p \in AllPaths |-> IF p = sp THEN sf ELSE IF p \in pre THEN OldFile(p) ELSE NoFile]

Init ==
    /\ prog \in {"cropper", "generator"}
    /\ argv \in Args(prog)
    /\ \E sf \in SourceFiles(prog), pre \in PreExisting(prog) :
          fs = InitFs(IF argv # NoArg THEN argv ELSE DefaultSource(prog), sf, pre)
    /\ dirExists \in BOOLEAN
    /\ (\E p \in DirPaths : fs[p].kind # "none") => dirExists
    /\ prog = "cropper" => dirExists
    /\ pc = "main"
    /\ source = NoArg
    /\ img = NoImg
    /\ box = NoBox
    /\ i = 0
    /\ written = <<>>
    /\ status = 0
    /\ err = ""
    /\ run = 1
    /\ fs0 = fs
    /\ dir0 = dirExists
    /\ prevSrc = NoFile

\* An uncaught exception, or sys.exit(1): the process ends with status 1.
Fail(e) ==
    /\ pc' = "exit"
    /\ status' = 1
    /\ err' = e

---------------------------------------------------------------------------
(* create-icon.py *)

CropperMain ==
    /\ prog = "cropper"
    /\ pc = "main"
    /\ source' = IF argv # NoArg THEN argv ELSE DefaultLogo
    /\ pc' = "open"
    /\ UNCHANGED <<prog, argv, fs, dirExists, img, box, i, written, status, err,
                   run, fs0, dir0, prevSrc>>

CreateIconOpen ==
    /\ prog = "cropper"
    /\ pc = "open"
    /\ IF fs[source].kind = "png"
       THEN /\ img' = Open(fs[source])
            /\ pc' = "convert"
            /\ UNCHANGED <<status, err>>
       ELSE /\ Fail("open")
            /\ UNCHANGED img
    /\ UNCHANGED <<prog, argv, fs, dirExists, source, box, i, written,
                   run, fs0, dir0, prevSrc>>

CreateIconConvert ==
    /\ prog = "cropper"
    /\ pc = "convert"
    /\ img' = ToRGBA(img)
    /\ pc' = "square"
    /\ UNCHANGED <<prog, argv, fs, dirExists, source, box, i, written, status, err,
                   run, fs0, dir0, prevSrc>>

CreateIconSquare ==
    /\ prog = "cropper"
    /\ pc = "square"
    /\ box' = Square(img.w, img.h)
    /\ pc' = "bounds"
    /\ UNCHANGED <<prog, argv, fs, dirExists, source, img, i, written, status, err,
                   run, fs0, dir0, prevSrc>>

CreateIconBounds ==
    /\ prog = "cropper"
    /\ pc = "bounds"
    /\ box' = EnsureBounds(box, img.w, img.h)
    /\ pc' = "crop"
    /\ UNCHANGED <<prog, argv, fs, dirExists, source, img, i, written, status, err,
                   run, fs0, dir0, prevSrc>>

CreateIconCrop ==
    /\ prog = "cropper"
    /\ pc = "crop"
    /\ img' = Crop(img, box)
    /\ pc' = "resize"
    /\ UNCHANGED <<prog, argv, fs, dirExists, source, box, i, written, status, err,
                   run, fs0, dir0, prevSrc>>

CreateIconResize ==
    /\ prog = "cropper"
    /\ pc = "resize"
    /\ img' = Resize(img, 1024, 1024)
    /\ pc' = "save"
    /\ UNCHANGED <<prog, argv, fs, dirExists, source, box, i, written, status, err,
                   run, fs0, dir0, prevSrc>>

CreateIconSave ==
    /\ prog = "cropper"
    /\ pc = "save"
    /\ fs' = [fs EXCEPT ![CropperOutput] = SavePng(img)]
    /\ pc' = "exit"
    /\ status' = 0
    /\ UNCHANGED <<prog, argv, dirExists, source, img, box, i, written, err,
                   run, fs0, dir0, prevSrc>>

\* convert (called for a source that is not RGBA), crop or resize raises: the
\* file's pixels are decoded lazily, and the library may run out of memory.
CreateIconImageError ==
    /\ prog = "cropper"
    /\ \/ pc = "convert" /\ img.mode # "RGBA"
       \/ pc \in {"crop", "resize"}
    /\ Fail("image")
    /\ UNCHANGED <<prog, argv, fs, dirExists, source, img, box, i, written,
                   run, fs0, dir0, prevSrc>>

\* save raises: the output file is untouched (it could not be opened) or is
\* left truncated.
CreateIconSaveError ==
    /\ prog = "cropper"
    /\ pc = "save"
    /\ fs' \in {fs, [fs EXCEPT ![CropperOutput] = Junk]}
    /\ Fail("save")
    /\ UNCHANGED <<prog, argv, dirExists, source, img, box, i, written,
                   run, fs0, dir0, prevSrc>>

---------------------------------------------------------------------------
(* generate-icons.py *)

\* main without its existence check.
GeneratorMainUnchecked ==
    /\ prog = "generator"
    /\ pc = "main"
    /\ source' = IF argv # NoArg THEN argv ELSE DefaultIcon
    /\ pc' = "open"
    /\ UNCHANGED <<prog, argv, fs, dirExists, img, box, i, written, status, err,
                   run, fs0, dir0, prevSrc>>

GeneratorMain ==
    /\ prog = "generator"
    /\ pc = "main"
    /\ source' = IF argv # NoArg THEN argv ELSE DefaultIcon
    /\ IF fs[source'].kind = "none"
       THEN Fail("missing")
       ELSE /\ pc' = "open"
            /\ UNCHANGED <<status, err>>
    /\ UNCHANGED <<prog, argv, fs, dirExists, img, box, i, written,
                   run, fs0, dir0, prevSrc>>

GenerateIconsOpen ==
    /\ prog = "generator"
    /\ pc = "open"
    /\ IF fs[source].kind = "png"
       THEN /\ img' = Open(fs[source])
            /\ pc' = "convert"
            /\ UNCHANGED <<status, err>>
       ELSE /\ Fail("open")
            /\ UNCHANGED img
    /\ UNCHANGED <<prog, argv, fs, dirExists, source, box, i, written,
                   run, fs0, dir0, prevSrc>>

GenerateIconsConvert ==
    /\ prog = "generator"
    /\ pc = "convert"
    /\ img' = ToRGBA(img)
    /\ pc' = "makedirs"
    /\ UNCHANGED <<prog, argv, fs, dirExists, source, box, i, written, status, err,
                   run, fs0, dir0, prevSrc>>

\* convert, called for a source that is not RGBA, raises.
GenerateIconsImageError ==
    /\ prog = "generator"
    /\ pc = "convert"
    /\ img.mode # "RGBA"
    /\ Fail("image")
    /\ UNCHANGED <<prog, argv, fs, dirExists, source, img, box, i, written,
                   run, fs0, dir0, prevSrc>>

\* The output directory emptied before it is filled.
GenerateIconsMakedirsClean ==
    /\ prog = "generator"
    /\ pc = "makedirs"
    /\ dirExists' = TRUE
    /\ fs' = [p \in AllPaths |-> IF p \in DirPaths THEN NoFile ELSE fs[p]]
    /\ pc' = "loop"
    /\ i' = 1
    /\ UNCHANGED <<prog, argv, source, img, box, written, status, err,
                   run, fs0, dir0, prevSrc>>

\* os.makedirs(output_dir, exist_ok=True), then the loop starts.
GenerateIconsMakedirs ==
    /\ prog = "generator"
    /\ pc = "makedirs"
    /\ dirExists' = TRUE
    /\ pc' = "loop"
    /\ i' = 1
    /\ UNCHANGED <<prog, argv, fs, source, img, box, written, status, err,
                   run, fs0, dir0, prevSrc>>

\* os.makedirs raises (no permission): only a directory that does not exist
\* has to be made.
GenerateIconsMakedirsError ==
    /\ prog = "generator"
    /\ pc = "makedirs"
    /\ ~dirExists
    /\ Fail("makedirs")
    /\ UNCHANGED <<prog, argv, fs, dirExists, source, img, box, i, written,
                   run, fs0, dir0, prevSrc>>

\* One pass of the loop body: resize, save, report.
GenerateIconsEntry ==
    /\ prog = "generator"
    /\ pc = "loop"
    /\ i <= Len(IOS_ICONS)
    /\ fs' = [fs EXCEPT ![output_path(i)] = SavePng(Resize(img, size(i), size(i)))]
    /\ written' = Append(written, i)
    /\ i' = i + 1
    /\ UNCHANGED <<prog, argv, dirExists, pc, source, img, box, status, err,
                   run, fs0, dir0, prevSrc>>

\* A loop body whose failure is swallowed: the loop goes on with the next entry.
GenerateIconsEntrySkipped ==
    /\ prog = "generator"
    /\ pc = "loop"
    /\ i <= Len(IOS_ICONS)
    /\ i' = i + 1
    /\ UNCHANGED <<prog, argv, fs, dirExists, pc, source, img, box, written, status, err,
                   run, fs0, dir0, prevSrc>>

\* The loop body raises: resize fails and nothing is written, or save fails
\* and the entry's file is untouched or left truncated.
GenerateIconsEntryError ==
    /\ prog = "generator"
    /\ pc = "loop"
    /\ i <= Len(IOS_ICONS)
    /\ \/ /\ Fail("resize")
          /\ UNCHANGED fs
       \/ /\ Fail("save")
          /\ fs' \in {fs, [fs EXCEPT ![output_path(i)] = Junk]}
    /\ UNCHANGED <<prog, argv, dirExists, source, img, box, i, written,
                   run, fs0, dir0, prevSrc>>

\* The table is exhausted: "Done!", and main returns.
GenerateIconsDone ==
    /\ prog = "generator"
    /\ pc = "loop"
    /\ i > Len(IOS_ICONS)
    /\ pc' = "exit"
    /\ status' = 0
    /\ UNCHANGED <<prog, argv, fs, dirExists, source, img, box, i, written, err,
                   run, fs0, dir0, prevSrc>>

---------------------------------------------------------------------------
(* The session *)

\* After a run that succeeded the script is run again with the same
\* arguments.  (A run after a failed run is a first run on other files.)
Rerun ==
    /\ pc = "exit"
    /\ status = 0
    /\ run < MaxRuns
    /\ run' = run + 1
    /\ prevSrc' = fs0[source]
    /\ fs0' = fs
    /\ dir0' = dirExists
    /\ pc' = "main"
    /\ source' = NoArg
    /\ img' = NoImg
    /\ box' = NoBox
    /\ i' = 0
    /\ written' = <<>>
    /\ status' = 0
    /\ err' = ""
    /\ UNCHANGED <<prog, argv, fs, dirExists>>

Next ==
    \/ CropperMain
    \/ CreateIconOpen
    \/ CreateIconConvert
    \/ CreateIconSquare
    \/ CreateIconBounds
    \/ CreateIconCrop
    \/ CreateIconResize
    \/ CreateIconSave
    \/ CreateIconImageError
    \/ CreateIconSaveError
    \/ GeneratorMain
    \/ GenerateIconsOpen
    \/ GenerateIconsConvert
    \/ GenerateIconsImageError
    \/ GenerateIconsMakedirs
    \/ GenerateIconsMakedirsError
    \/ GenerateIconsEntry
    \/ GenerateIconsEntryError
    \/ GenerateIconsDone
    \/ Rerun

Spec == Init /\ [][Next]_vars

---------------------------------------------------------------------------
(* The claims *)

TheOutputFile == Join("Assets", "vettid-icon-1024.png")

\* create_icon stands at img.crop: box is the rectangle passed to it, and
\* img is still the whole source image.
AtCrop == prog = "cropper" /\ pc = "crop"

\* create_icon has computed left, top, right, bottom and not yet clamped them.
AtBounds == prog = "cropper" /\ pc = "bounds"

BoxInsideImage ==
    /\ 0 <= box.left /\ box.left < box.right /\ box.right <= img.w
    /\ 0 <= box.top /\ box.top < box.bottom /\ box.bottom <= img.h

\* C1 as claimed: for every source of width >= 1 and height >= 1 the
\* rectangle passed to crop has 0 <= left < right <= width and
\* 0 <= top < bottom <= height.
C1_BoxInsideImage_AsClaimed == AtCrop => BoxInsideImage

\* C1 amended: for every source of width >= 1 and height >= 2 the rectangle
\* passed to crop has 0 <= left < right <= width and 0 <= top < bottom <= height
\* (a source one pixel high has tower_top = tower_bottom = 0 and an empty
\* rectangle).
C1_BoxInsideImage == (AtCrop /\ img.h >= 2) => BoxInsideImage

\* C1 witness: a source at least two pixels high whose rectangle the clamping
\* has changed stands at crop.
C1_Witness == AtCrop /\ img.h >= 2 /\ box # Square(img.w, img.h)

\* C2: a Cropper run that reaches save holds a 1024x1024 RGBA image there, and
\* a run that succeeded has written a 1024x1024 RGBA PNG, whatever the
\* source's size and mode.
C2_Output1024RGBA ==
    prog = "cropper" =>
        /\ pc = "save" => (img.w = 1024 /\ img.h = 1024 /\ img.mode = "RGBA")
        /\ (pc = "exit" /\ status = 0) =>
              /\ fs[TheOutputFile].kind = "png"
              /\ fs[TheOutputFile].w = 1024
              /\ fs[TheOutputFile].h = 1024
              /\ fs[TheOutputFile].mode = "RGBA"

\* C2 witness: the Cropper succeeded on a 2000x1000 source that was not RGBA.
C2_Witness ==
    /\ prog = "cropper" /\ pc = "exit" /\ status = 0 /\ argv = NoArg
    /\ fs0[source].w = 2000 /\ fs0[source].h = 1000 /\ fs0[source].mode = "RGB"

Written == {written[k] : k \in 1..Len(written)}

\* C3: a Generator run that ends with status 0 has written exactly 18
\* distinct files, one per entry of IOS_ICONS, and the file each entry names
\* is a PNG of exactly size x size.
C3_EighteenIcons ==
    (prog = "generator" /\ pc = "exit" /\ status = 0) =>
        /\ Len(IOS_ICONS) = 18
        /\ Cardinality({output_path(k) : k \in Written}) = 18
        /\ \A k \in 1..Len(IOS_ICONS) :
              /\ fs[output_path(k)].kind = "png"
              /\ fs[output_path(k)].w = size(k)
              /\ fs[output_path(k)].h = size(k)

\* C3 witness: the Generator succeeded on a 300x300 source into a directory
\* that did not exist.
C3_Witness ==
    /\ prog = "generator" /\ pc = "exit" /\ status = 0 /\ ~dir0
    /\ fs0[source].w = 300 /\ fs0[source].h = 300

\* C4: when the Generator's resolved source path does not exist, main ends
\* the run with status 1 at once: no image is opened, the output directory is
\* not created and no file is written.
C4_MissingSource ==
    (prog = "generator" /\ pc # "main" /\ fs0[source].kind = "none") =>
        /\ pc = "exit" /\ status = 1 /\ err = "missing"
        /\ img = NoImg
        /\ dirExists = dir0
        /\ fs = fs0
        /\ written = <<>>

\* C4 witness: the Generator, run without an argument, found its default
\* source missing, the output directory not existing.
C4_Witness ==
    /\ prog = "generator" /\ pc = "exit" /\ err = "missing"
    /\ argv = NoArg /\ ~dirExists

\* C5: the Generator writes in table order: at every point of a run the
\* entries written are the prefix 1..i-1 of the table, each written file still
\* holds its resized image, and a run that a failing entry ended has status 1
\* and has left the files of the later entries as they were.
C5_PrefixWritten ==
    prog = "generator" =>
        /\ written = [k \in 1..Len(written) |-> k]
        /\ pc = "loop" => Len(written) = i - 1
        /\ \A k \in Written : fs[output_path(k)] = SavePng(Resize(img, size(k), size(k)))
        /\ (pc = "exit" /\ err \in {"resize", "save"}) =>
              /\ status = 1
              /\ Len(written) = i - 1
              /\ \A k \in (i + 1)..Len(IOS_ICONS) : fs[output_path(k)] = fs0[output_path(k)]

\* C5 witness: the save of the 6th entry failed and left its file truncated,
\* after five entries were written over older files.
C5_Witness ==
    /\ prog = "generator" /\ pc = "exit" /\ err = "save" /\ i = 6
    /\ Len(written) = 5
    /\ fs[output_path(6)] = Junk
    /\ fs0[output_path(1)].kind = "png"
    /\ fs0[output_path(18)].kind = "png"

\* C6: a second successful run of either script, with the same arguments and
\* the source image the first run had, leaves every file as the first run
\* left it.
C6_SecondRunChangesNothing ==
    (run >= 2 /\ pc = "exit" /\ status = 0 /\ fs0[source] = prevSrc) =>
        /\ fs = fs0
        /\ dirExists = dir0

\* C6 witness: a second run has succeeded on the source the first run had.
C6_Witness ==
    /\ run >= 2 /\ pc = "exit" /\ status = 0 /\ fs0[source] = prevSrc
    /\ fs[ContentsJson].kind = "junk"

\* C7: a Cropper run changes no file but vettid-icon-1024.png next to the
\* script, whatever its argument; a run that succeeded has written its image
\* there; a run whose source could not be read or decoded has status 1 and
\* has left that file as it was.
C7_OnlyTheOutputFile ==
    prog = "cropper" =>
        /\ \A p \in AllPaths \ {TheOutputFile} : fs[p] = fs0[p]
        /\ (pc = "exit" /\ status = 0) => fs[TheOutputFile] = SavePng(img)
        /\ (pc = "exit" /\ err \in {"open", "image"}) => (status = 1 /\ fs = fs0)
        /\ (pc \notin {"main", "open"} /\ fs0[source].kind # "png") =>
              (pc = "exit" /\ status = 1 /\ fs = fs0)

\* C7 witness: the Cropper, given a source on the command line, succeeded and
\* overwrote an older output file, the source still in place.
C7_Witness ==
    /\ prog = "cropper" /\ pc = "exit" /\ status = 0 /\ argv = CustomArg
    /\ fs0[TheOutputFile].kind = "png"
    /\ fs[TheOutputFile] # fs0[TheOutputFile]

\* C8: before clamping the Cropper's rectangle is a square of side
\* square_size = floor(1.1 * (tower_bottom - tower_top)), with
\* left = center_x - square_size div 2 and top = center_y - square_size div 2.
C8_SquareBeforeClamping ==
    AtBounds =>
        LET s  == box.right - box.left
            th == tower_bottom(img.h) - tower_top(img.h)
        IN  /\ box.bottom - box.top = s
            /\ 10 * s <= 11 * th /\ 11 * th < 10 * (s + 1)
            /\ box.left = center_x(img.w) - s \div 2
            /\ box.top = center_y(img.h) - s \div 2

\* C8 witness: a rectangle of odd side that sticks out of a narrow source.
C8_Witness ==
    AtBounds /\ (box.right - box.left) % 2 = 1 /\ box.left < 0 /\ box.right > img.w

\* C9: clamping never moves the top or the bottom edge; the rectangle passed
\* to crop is square exactly when center_x - square_size div 2 >= 0 and
\* center_x - square_size div 2 + square_size <= width, and is narrower than
\* high otherwise.
C9_OnlyHorizontalClamping ==
    /\ AtBounds => (box.top >= 0 /\ box.bottom <= img.h)
    /\ AtCrop =>
          LET s    == square_size(img.h)
              l    == center_x(img.w) - s \div 2
              fits == l >= 0 /\ l + s <= img.w
          IN  /\ box.bottom - box.top = s
              /\ (box.right - box.left = box.bottom - box.top) <=> fits
              /\ ~fits => box.right - box.left < box.bottom - box.top

\* C9 witness: a rectangle narrower than high stands at crop.
C9_Witness == AtCrop /\ box.right - box.left < box.bottom - box.top

\* C10: a Generator run, successful or failed, leaves every file whose name is
\* not in the table, in the output directory or elsewhere, as it was.
C10_OnlyTableFiles ==
    prog = "generator" => \A p \in AllPaths \ TablePaths : fs[p] = fs0[p]

\* C10 witness: a run wrote icons over older ones in a directory that held
\* the catalog's JSON, and then failed.
C10_Witness ==
    /\ prog = "generator" /\ pc = "exit" /\ status = 1 /\ Len(written) >= 1
    /\ fs0[ContentsJson].kind = "junk"
    /\ fs0[output_path(1)].kind = "png"
    /\ fs0[TheOutputFile].kind = "png"

===========================================================================
